---- MODULE Spec2Model ----
(***************************************************************************)
(* A model of the AiConfigHelper React component                           *)
(* (src/src/AiConfigHelper.tsx): the popover chat panel attached to a form *)
(* field.  The state is the component's useState cells, the props it was   *)
(* mounted with, the handler calls that are still awaited, and a record of *)
(* what the host has observed (handler calls, apply callback calls).       *)
(* Texts are TLA+ strings; trimming, rendering and JSON parsing are        *)
(* computed character by character.                                        *)
(***************************************************************************)
EXTENDS Integers, Sequences, FiniteSets, TLC

VARIABLES props, anchorEl, userInput, messages, isLoading,
          inflight, handlerCalls, applyCalls, last

vars == <<props, anchorEl, userInput, messages, isLoading,
          inflight, handlerCalls, applyCalls, last>>

(***************************************************************************)
(* Bounds of the exploration.                                              *)
(***************************************************************************)
\* the longest message sequence explored: a submit is explored where its
\* user message and three responses to it and to every pending call fit
MaxMessages == 9

(***************************************************************************)
(* Strings.                                                                *)
(***************************************************************************)
\* the characters i..j of s that exist (String.prototype.substring)
Sub(s, i, j) ==
  LET hi == IF j > Len(s) THEN Len(s) ELSE j
  IN IF i < 1 \/ i > hi THEN "" ELSE SubSeq(s, i, hi)

Ch(s, i) == Sub(s, i, i)

Rest(s, i) == Sub(s, i, Len(s))

WhiteSpace == {" ", "\t", "\n", "\r"}

RECURSIVE TrimStart(_)
TrimStart(s) ==
  IF s = "" THEN ""
  ELSE IF Ch(s, 1) \in WhiteSpace THEN TrimStart(Rest(s, 2)) ELSE s

RECURSIVE TrimEnd(_)
TrimEnd(s) ==
  IF s = "" THEN ""
  ELSE IF Ch(s, Len(s)) \in WhiteSpace THEN TrimEnd(Sub(s, 1, Len(s) - 1))
       ELSE s

\* String.prototype.trim
Trim(s) == TrimEnd(TrimStart(s))

Upper == <<"A", "B", "C", "D", "E", "F", "G", "H", "I", "J", "K", "L", "M",
           "N", "O", "P", "Q", "R", "S", "T", "U", "V", "W", "X", "Y", "Z">>

Lower == <<"a", "b", "c", "d", "e", "f", "g", "h", "i", "j", "k", "l", "m",
           "n", "o", "p", "q", "r", "s", "t", "u", "v", "w", "x", "y", "z">>

LowerCh(c) ==
  IF \E k \in 1..26 : Upper[k] = c
  THEN Lower[CHOOSE k \in 1..26 : Upper[k] = c]
  ELSE c

\* String.prototype.toLowerCase
RECURSIVE ToLowerCase(_)
ToLowerCase(s) ==
  IF s = "" THEN "" ELSE LowerCh(Ch(s, 1)) \o ToLowerCase(Rest(s, 2))

\* String.prototype.includes
Includes(s, t) ==
  \E i \in 1..(Len(s) + 1) : Sub(s, i, i + Len(t) - 1) = t

\* s has only white space (or nothing)
Blank(s) == \A k \in 1..Len(s) : Ch(s, k) \in WhiteSpace

\* the sequence s is a prefix of the sequence t
IsPrefix(s, t) == Len(s) <= Len(t) /\ SubSeq(t, 1, Len(s)) = s

(***************************************************************************)
(* JavaScript values that cross the component's boundary (the handler's    *)
(* payload, the value given to the apply callback).  An object is the      *)
(* sequence of its <<key, value>> pairs in insertion order.                *)
(***************************************************************************)
JUndef == [t |-> "undef"]

JNull == [t |-> "null"]

JBool(b) == [t |-> "bool", v |-> b]

JNum(n) == [t |-> "num", v |-> n]

JStr(s) == [t |-> "str", v |-> s]

JArr(items) == [t |-> "arr", v |-> items]

JObj(pairs) == [t |-> "obj", v |-> pairs]

\* typeof x === "object"
TypeofObject(x) == x.t \in {"obj", "arr", "null"}

Digits == <<"0", "1", "2", "3", "4", "5", "6", "7", "8", "9">>

IsDigit(c) == \E d \in 1..10 : Digits[d] = c

DigitVal(c) == (CHOOSE d \in 1..10 : Digits[d] = c) - 1

RECURSIVE NatToString(_)
NatToString(n) ==
  IF n < 10 THEN Digits[n + 1]
  ELSE NatToString(n \div 10) \o Digits[(n % 10) + 1]

\* Number.prototype.toString for an integer
IntToString(n) == IF n < 0 THEN "-" \o NatToString(0 - n) ELSE NatToString(n)

EscapeCh(c) ==
  CASE c = "\"" -> "\\\""
    [] c = "\\" -> "\\\\"
    [] c = "\n" -> "\\n"
    [] c = "\t" -> "\\t"
    [] c = "\r" -> "\\r"
    [] OTHER -> c

RECURSIVE Escape(_)
Escape(s) == IF s = "" THEN "" ELSE EscapeCh(Ch(s, 1)) \o Escape(Rest(s, 2))

\* JSON.stringify of a string
Quote(s) == "\"" \o Escape(s) \o "\""

\* JSON.stringify(x, null, 2) where ind is the indentation of the enclosing
\* line; a property whose value is undefined is left out, an undefined array
\* item is written as null.
RECURSIVE Stringify(_, _)
RECURSIVE StringifyItems(_, _)
RECURSIVE StringifyMembers(_, _, _)
Stringify(x, ind) ==
  CASE x.t = "null" -> "null"
    [] x.t = "bool" -> IF x.v THEN "true" ELSE "false"
    [] x.t = "num" -> IntToString(x.v)
    [] x.t = "str" -> Quote(x.v)
    [] x.t = "arr" ->
         IF x.v = <<>> THEN "[]"
         ELSE "[\n" \o StringifyItems(x.v, ind \o "  ") \o "\n" \o ind \o "]"
    [] x.t = "obj" ->
         LET body == StringifyMembers(x.v, ind \o "  ", TRUE)
         IN IF body = "" THEN "{}"
            ELSE "{\n" \o body \o "\n" \o ind \o "}"

StringifyItems(items, ind) ==
  LET one == IF Head(items).t = "undef" THEN "null"
             ELSE Stringify(Head(items), ind)
  IN IF Len(items) = 1 THEN ind \o one
     ELSE ind \o one \o ",\n" \o StringifyItems(Tail(items), ind)

StringifyMembers(pairs, ind, first) ==
  IF pairs = <<>> THEN ""
  ELSE IF Head(pairs)[2].t = "undef"
       THEN StringifyMembers(Tail(pairs), ind, first)
       ELSE (IF first THEN "" ELSE ",\n")
            \o ind \o Quote(Head(pairs)[1]) \o ": "
            \o Stringify(Head(pairs)[2], ind)
            \o StringifyMembers(Tail(pairs), ind, FALSE)

(***************************************************************************)
(* JSON.parse, by recursive descent.  A result is [ok, v, i]: whether a    *)
(* value was read, the value, and the index after it.  Numbers are the     *)
(* integers of the JSON grammar (no fraction, no exponent: no text of the  *)
(* model has one); strings take the two-character escapes.                 *)
(***************************************************************************)
Fail == [ok |-> FALSE, v |-> JNull, i |-> 0]

Ok(v, i) == [ok |-> TRUE, v |-> v, i |-> i]

RECURSIVE SkipWs(_, _)
SkipWs(s, i) ==
  IF i <= Len(s) /\ Ch(s, i) \in WhiteSpace THEN SkipWs(s, i + 1) ELSE i

UnescapeCh(c) ==
  CASE c = "\"" -> "\""
    [] c = "\\" -> "\\"
    [] c = "/" -> "/"
    [] c = "n" -> "\n"
    [] c = "t" -> "\t"
    [] c = "r" -> "\r"
    [] OTHER -> ""

\* i is the index after the opening quote, acc the characters read so far
RECURSIVE ParseChars(_, _, _)
ParseChars(s, i, acc) ==
  IF i > Len(s) THEN Fail
  ELSE LET c == Ch(s, i) IN
       CASE c = "\"" -> Ok(acc, i + 1)
         [] c = "\\" ->
              IF i + 1 > Len(s) \/ UnescapeCh(Ch(s, i + 1)) = "" THEN Fail
              ELSE ParseChars(s, i + 2, acc \o UnescapeCh(Ch(s, i + 1)))
         [] c \in {"\n", "\t", "\r"} -> Fail
         [] OTHER -> ParseChars(s, i + 1, acc \o c)

RECURSIVE ParseDigits(_, _, _)
ParseDigits(s, i, acc) ==
  IF i <= Len(s) /\ IsDigit(Ch(s, i))
  THEN ParseDigits(s, i + 1, 10 * acc + DigitVal(Ch(s, i)))
  ELSE Ok(acc, i)

\* i is the index of the first digit
ParseNat(s, i) ==
  IF i > Len(s) \/ ~IsDigit(Ch(s, i)) THEN Fail
  ELSE IF Ch(s, i) = "0" THEN Ok(0, i + 1)
  ELSE ParseDigits(s, i, 0)

ParseNumber(s, i) ==
  LET neg == Ch(s, i) = "-"
      r == ParseNat(s, IF neg THEN i + 1 ELSE i)
  IN IF ~r.ok THEN Fail
     ELSE IF r.i <= Len(s) /\ Ch(s, r.i) \in {".", "e", "E"} THEN Fail
     ELSE Ok(JNum(IF neg THEN 0 - r.v ELSE r.v), r.i)

RECURSIVE ParseValue(_, _)
RECURSIVE ParseItems(_, _, _)
RECURSIVE ParseMembers(_, _, _)
ParseValue(s, i0) ==
  LET i == SkipWs(s, i0) IN
  IF i > Len(s) THEN Fail
  ELSE LET c == Ch(s, i) IN
       CASE c = "{" ->
              IF SkipWs(s, i + 1) <= Len(s) /\ Ch(s, SkipWs(s, i + 1)) = "}"
              THEN Ok(JObj(<<>>), SkipWs(s, i + 1) + 1)
              ELSE ParseMembers(s, i + 1, <<>>)
         [] c = "[" ->
              IF SkipWs(s, i + 1) <= Len(s) /\ Ch(s, SkipWs(s, i + 1)) = "]"
              THEN Ok(JArr(<<>>), SkipWs(s, i + 1) + 1)
              ELSE ParseItems(s, i + 1, <<>>)
         [] c = "\"" ->
              LET r == ParseChars(s, i + 1, "")
              IN IF r.ok THEN Ok(JStr(r.v), r.i) ELSE Fail
         [] c = "-" \/ IsDigit(c) -> ParseNumber(s, i)
         [] Sub(s, i, i + 3) = "true" -> Ok(JBool(TRUE), i + 4)
         [] Sub(s, i, i + 4) = "false" -> Ok(JBool(FALSE), i + 5)
         [] Sub(s, i, i + 3) = "null" -> Ok(JNull, i + 4)
         [] OTHER -> Fail

\* the items of an array after "[" or ",", up to and including "]"
ParseItems(s, i, acc) ==
  LET r == ParseValue(s, i) IN
  IF ~r.ok THEN Fail
  ELSE LET j == SkipWs(s, r.i) IN
       IF j > Len(s) THEN Fail
       ELSE IF Ch(s, j) = "," THEN ParseItems(s, j + 1, Append(acc, r.v))
       ELSE IF Ch(s, j) = "]" THEN Ok(JArr(Append(acc, r.v)), j + 1)
       ELSE Fail

\* the members of an object after "{" or ",", up to and including "}"
ParseMembers(s, i0, acc) ==
  LET i == SkipWs(s, i0) IN
  IF i > Len(s) \/ Ch(s, i) # "\"" THEN Fail
  ELSE LET k == ParseChars(s, i + 1, "") IN
       IF ~k.ok THEN Fail
       ELSE LET c == SkipWs(s, k.i) IN
            IF c > Len(s) \/ Ch(s, c) # ":" THEN Fail
            ELSE LET r == ParseValue(s, c + 1) IN
                 IF ~r.ok THEN Fail
                 ELSE LET j == SkipWs(s, r.i)
                          pairs == Append(acc, <<k.v, r.v>>)
                      IN IF j > Len(s) THEN Fail
                         ELSE IF Ch(s, j) = ","
                              THEN ParseMembers(s, j + 1, pairs)
                         ELSE IF Ch(s, j) = "}" THEN Ok(JObj(pairs), j + 1)
                         ELSE Fail

\* JSON.parse(text): ok is FALSE where JSON.parse throws a SyntaxError
JsonParse(text) ==
  LET r == ParseValue(text, 1) IN
  IF r.ok /\ SkipWs(text, r.i) > Len(text)
  THEN [ok |-> TRUE, v |-> r.v]
  ELSE [ok |-> FALSE, v |-> JNull]

(***************************************************************************)
(* Props.  An optional string prop is [some, v]; an optional function prop *)
(* is whether it was given.                                                *)
(***************************************************************************)
None == [some |-> FALSE, v |-> ""]

Some(v) == [some |-> TRUE, v |-> v]

FieldNames == {"Notes", "JSON Schema"}

WelcomeMessages == {None, Some(""), Some("Hello!")}

AiConfigHelperProps ==
  [fieldName : FieldNames, welcomeMessage : WelcomeMessages,
   onSendMessage : BOOLEAN, onApplyValue : BOOLEAN]

\* what the user can have in the text field
Inputs == {"", "  ", " a b "}

(***************************************************************************)
(* Messages.  The timestamp of a Message is written once and never read by *)
(* the logic; it is left out.                                              *)
(***************************************************************************)
UserMessage(text) == [text |-> text, isUser |-> TRUE]

AssistantMessage(text) == [text |-> text, isUser |-> FALSE]

defaultWelcomeMessage ==
  "Hi there! I'm AiConfigHelper. How can I help you configure the \""
    \o props.fieldName \o "\" field?"

\* welcomeMessage || defaultWelcomeMessage: "" is falsy like undefined
WelcomeText ==
  IF props.welcomeMessage.some /\ props.welcomeMessage.v # ""
  THEN props.welcomeMessage.v
  ELSE defaultWelcomeMessage

aiMessage ==
  AssistantMessage("Here's what I suggest for the \"" \o props.fieldName
                     \o "\" field:")

suggestionMessage ==
  AssistantMessage(
    "Would you like to apply this value to the field? Just click on the message.")

(***************************************************************************)
(* What a handler call can come to.  A rejection reason is an Error with a *)
(* message, or some other value (a string, here) thrown as it is.          *)
(***************************************************************************)
NoErr == [isError |-> FALSE, message |-> ""]

Err(m) == [isError |-> TRUE, message |-> m]

NonError(m) == [isError |-> FALSE, message |-> m]

Resolve(payload) == [kind |-> "resolve", payload |-> payload, err |-> NoErr]

Reject(e) == [kind |-> "reject", payload |-> JUndef, err |-> e]

NoOutcome == [kind |-> "none", payload |-> JUndef, err |-> NoErr]

Payloads ==
  {JStr("hello world"), JStr("{\"x\":1}"), JObj(<< <<"x", JNum(1)>> >>),
   JUndef}

Rejections == {Err("boom"), Err(""), NonError("boom")}

HandlerOutcomes ==
  {Resolve(p) : p \in Payloads} \cup {Reject(e) : e \in Rejections}

IsJsonField ==
  \/ Includes(ToLowerCase(props.fieldName), "json")
  \/ Includes(ToLowerCase(props.fieldName), "schema")

\* the three canned responses of mockApiResponse
MockResponses ==
  << IF IsJsonField
     THEN JObj(<< <<"schema",
                    JObj(<< <<"type", JStr("object")>>,
                            <<"properties",
                              JObj(<< <<"name",
                                        JObj(<< <<"type", JStr("string")>> >>)>>,
                                      <<"age",
                                        JObj(<< <<"type", JStr("number")>> >>)>>
                                   >>)>> >>)>> >>)
     ELSE JStr("This is a sample note from AI assistant."),
     IF IsJsonField
     THEN JObj(<< <<"example",
                    JObj(<< <<"name", JStr("John Doe")>>,
                            <<"age", JNum(30)>> >>)>> >>)
     ELSE JStr("Another helpful note for your reference."),
     IF IsJsonField
     THEN JObj(<< <<"configuration",
                    JObj(<< <<"required", JArr(<<JStr("name")>>)>>,
                            <<"additionalProperties", JBool(FALSE)>> >>)>> >>)
     ELSE JStr("AI-generated content for the notes field.") >>

\* Math.floor(Math.random() * responses.length) is any index
MockOutcomes == {Resolve(MockResponses[k]) : k \in 1..3}

Outcomes == IF props.onSendMessage THEN HandlerOutcomes ELSE MockOutcomes

\* the TypeError of response.payload.toString() on an undefined payload
\* (the message is the engine's; this is V8's)
ToStringOfUndefined ==
  Err("Cannot read properties of undefined (reading 'toString')")

\* payloadMessage with toString() for every payload
PayloadText_ToString(payload) ==
  CASE payload.t = "undef" -> [ok |-> FALSE, text |-> ""]
    [] payload.t = "str" -> [ok |-> TRUE, text |-> payload.v]
    [] payload.t = "num" -> [ok |-> TRUE, text |-> IntToString(payload.v)]
    [] payload.t = "bool" ->
         [ok |-> TRUE, text |-> IF payload.v THEN "true" ELSE "false"]
    [] OTHER -> [ok |-> TRUE, text |-> "[object Object]"]

\* the text of payloadMessage; ok is FALSE where the expression throws
PayloadText(payload) ==
  IF TypeofObject(payload) THEN [ok |-> TRUE, text |-> Stringify(payload, "")]
  ELSE CASE payload.t = "undef" -> [ok |-> FALSE, text |-> ""]
         [] payload.t = "str" -> [ok |-> TRUE, text |-> payload.v]
         [] payload.t = "num" -> [ok |-> TRUE, text |-> IntToString(payload.v)]
         [] payload.t = "bool" ->
              [ok |-> TRUE, text |-> IF payload.v THEN "true" ELSE "false"]

\* errorMessage reading the message of whatever was thrown
errorMessage_AnyMessage(error) ==
  AssistantMessage("Sorry, I encountered an error: " \o error.message)

errorMessage(error) ==
  AssistantMessage("Sorry, I encountered an error: "
                     \o (IF error.isError THEN error.message
                         ELSE "Unknown error"))

\* the messages the try / catch of handleSendMessage appends once the await
\* is over, in order
ResponseMessages(out) ==
  IF out.kind = "resolve"
  THEN IF PayloadText(out.payload).ok
       THEN <<aiMessage, AssistantMessage(PayloadText(out.payload).text),
              suggestionMessage>>
       ELSE <<aiMessage, errorMessage(ToStringOfUndefined)>>
  ELSE <<errorMessage(out.err)>>

(***************************************************************************)
(* The component.  anchorEl is "null" or the trigger button; inflight is   *)
(* the handleSendMessage calls suspended at their await, each with the     *)
(* text it sent (arg), the index of its user message (pos) and the number  *)
(* of the call (id).  handlerCalls is every text given to the handler (or  *)
(* to the built-in mock).  last is the event that led to the state and     *)
(* applyCalls the calls of onApplyValue made during it, each with whether  *)
(* the callback threw.  The handler is taken to return a promise, as its   *)
(* type says: it settles in a later task, in any order, or never.          *)
(***************************************************************************)
Event(op) == [op |-> op, out |-> NoOutcome, i |-> 0]

open == anchorEl # "null"

Remove(seq, i) == SubSeq(seq, 1, i - 1) \o SubSeq(seq, i + 1, Len(seq))

Init ==
  /\ props \in AiConfigHelperProps
  /\ anchorEl = "null"
  /\ userInput = ""
  /\ messages = <<>>
  /\ isLoading = FALSE
  /\ inflight = <<>>
  /\ handlerCalls = <<>>
  /\ applyCalls = <<>>
  /\ last = Event("mount")

\* handleOpenChat without the welcome message
handleOpenChat_NoSeed ==
  /\ anchorEl' = "button"
  /\ last' = Event("open")
  /\ applyCalls' = <<>>
  /\ UNCHANGED <<props, userInput, messages, isLoading, inflight,
                 handlerCalls>>

\* handleOpenChat without its emptiness test, adding the welcome message
handleOpenChat_AlwaysWelcome ==
  /\ anchorEl' = "button"
  /\ messages' = Append(messages, AssistantMessage(WelcomeText))
  /\ last' = Event("open")
  /\ applyCalls' = <<>>
  /\ UNCHANGED <<props, userInput, isLoading, inflight, handlerCalls>>

\* handleOpenChat without its emptiness test, setting the message list
handleOpenChat_Reset ==
  /\ anchorEl' = "button"
  /\ messages' = <<AssistantMessage(WelcomeText)>>
  /\ last' = Event("open")
  /\ applyCalls' = <<>>
  /\ UNCHANGED <<props, userInput, isLoading, inflight, handlerCalls>>

\* click on the trigger button
handleOpenChat ==
  /\ anchorEl' = "button"
  /\ messages' = IF Len(messages) = 0
                 THEN <<AssistantMessage(WelcomeText)>>
                 ELSE messages
  /\ last' = Event("open")
  /\ applyCalls' = <<>>
  /\ UNCHANGED <<props, userInput, isLoading, inflight, handlerCalls>>

\* handleCloseChat emptying the text field
handleCloseChat_ClearingInput ==
  /\ open
  /\ anchorEl' = "null"
  /\ userInput' = ""
  /\ last' = Event("close")
  /\ applyCalls' = <<>>
  /\ UNCHANGED <<props, messages, isLoading, inflight, handlerCalls>>

\* handleCloseChat giving up the pending calls
handleCloseChat_Aborting ==
  /\ open
  /\ anchorEl' = "null"
  /\ inflight' = <<>>
  /\ isLoading' = FALSE
  /\ last' = Event("close")
  /\ applyCalls' = <<>>
  /\ UNCHANGED <<props, userInput, messages, handlerCalls>>

\* the popover's onClose, or its close button
handleCloseChat ==
  /\ open
  /\ anchorEl' = "null"
  /\ last' = Event("close")
  /\ applyCalls' = <<>>
  /\ UNCHANGED <<props, userInput, messages, isLoading, inflight,
                 handlerCalls>>

\* typing in the text field of the open panel
handleInputChange(value) ==
  /\ open
  /\ userInput' = value
  /\ last' = Event("input")
  /\ applyCalls' = <<>>
  /\ UNCHANGED <<props, anchorEl, messages, isLoading, inflight,
                 handlerCalls>>

\* handleSendMessage testing the input without trimming it
handleSendMessage_NoTrimTest ==
  IF userInput = ""
  THEN UNCHANGED <<userInput, messages, isLoading, inflight, handlerCalls>>
  ELSE /\ Len(messages) + 1 + 3 * (Len(inflight) + 1) <= MaxMessages
       /\ messages' = Append(messages, UserMessage(Trim(userInput)))
       /\ userInput' = ""
       /\ isLoading' = TRUE
       /\ handlerCalls' = Append(handlerCalls, Trim(userInput))
       /\ inflight' = Append(inflight,
                             [arg |-> Trim(userInput),
                              pos |-> Len(messages) + 1,
                              id |-> Len(handlerCalls) + 1])

\* handleSendMessage giving the handler the input as typed
handleSendMessage_RawToHandler ==
  IF Trim(userInput) = ""
  THEN UNCHANGED <<userInput, messages, isLoading, inflight, handlerCalls>>
  ELSE /\ Len(messages) + 1 + 3 * (Len(inflight) + 1) <= MaxMessages
       /\ messages' = Append(messages, UserMessage(Trim(userInput)))
       /\ userInput' = ""
       /\ isLoading' = TRUE
       /\ handlerCalls' = Append(handlerCalls, userInput)
       /\ inflight' = Append(inflight,
                             [arg |-> userInput,
                              pos |-> Len(messages) + 1,
                              id |-> Len(handlerCalls) + 1])

\* handleSendMessage up to its await
handleSendMessage ==
  IF Trim(userInput) = ""
  THEN UNCHANGED <<userInput, messages, isLoading, inflight, handlerCalls>>
  ELSE /\ Len(messages) + 1 + 3 * (Len(inflight) + 1) <= MaxMessages
       /\ messages' = Append(messages, UserMessage(Trim(userInput)))
       /\ userInput' = ""
       /\ isLoading' = TRUE
       /\ handlerCalls' = Append(handlerCalls, Trim(userInput))
       /\ inflight' = Append(inflight,
                             [arg |-> Trim(userInput),
                              pos |-> Len(messages) + 1,
                              id |-> Len(handlerCalls) + 1])

\* click on the Send button, which is disabled on blank input and while
\* loading
ClickSend ==
  /\ open
  /\ ~(Trim(userInput) = "" \/ isLoading)
  /\ handleSendMessage
  /\ last' = Event("send")
  /\ applyCalls' = <<>>
  /\ UNCHANGED <<props, anchorEl>>

\* Enter without Shift in the text field
handleKeyPress ==
  /\ open
  /\ handleSendMessage
  /\ last' = Event("enter")
  /\ applyCalls' = <<>>
  /\ UNCHANGED <<props, anchorEl>>

\* the continuation clearing the input text in its finally block
Settle_ClearingInput(i, out) ==
  /\ i \in DOMAIN inflight
  /\ out \in Outcomes
  /\ messages' = messages \o ResponseMessages(out)
  /\ isLoading' = FALSE
  /\ userInput' = ""
  /\ inflight' = Remove(inflight, i)
  /\ last' = [op |-> "settle", out |-> out, i |-> inflight[i].id]
  /\ applyCalls' = <<>>
  /\ UNCHANGED <<props, anchorEl, handlerCalls>>

\* handleSendMessage from its await on: the i-th suspended call settles
\* with out
Settle(i, out) ==
  /\ i \in DOMAIN inflight
  /\ out \in Outcomes
  /\ messages' = messages \o ResponseMessages(out)
  /\ isLoading' = FALSE
  /\ inflight' = Remove(inflight, i)
  /\ last' = [op |-> "settle", out |-> out, i |-> inflight[i].id]
  /\ applyCalls' = <<>>
  /\ UNCHANGED <<props, anchorEl, userInput, handlerCalls>>

\* handleApplyValue without JSON.parse
handleApplyValue_Raw(text, throws) ==
  IF ~props.onApplyValue THEN <<>> ELSE <<JStr(text)>>

\* the values handleApplyValue(text) calls onApplyValue with, in order,
\* where throws is whether the callback throws when given the parsed value
\* (a throw of the call in the catch block goes to the caller)
handleApplyValue(text, throws) ==
  IF ~props.onApplyValue THEN <<>>
  ELSE LET r == JsonParse(text) IN
       IF r.ok
       THEN IF throws THEN <<r.v, JStr(text)>> ELSE <<r.v>>
       ELSE <<JStr(text)>>

\* the bubble's onClick without its isUser test
ClickMessage_AnyAuthor(i, throws) ==
  /\ open
  /\ i \in DOMAIN messages
  /\ applyCalls' = handleApplyValue(messages[i].text, throws)
  /\ last' = [op |-> "click", out |-> NoOutcome, i |-> i]
  /\ UNCHANGED <<props, anchorEl, userInput, messages, isLoading, inflight,
                 handlerCalls>>

\* click on the i-th message bubble of the open panel
ClickMessage(i, throws) ==
  /\ open
  /\ i \in DOMAIN messages
  /\ applyCalls' = IF ~messages[i].isUser
                   THEN handleApplyValue(messages[i].text, throws)
                   ELSE <<>>
  /\ last' = [op |-> "click", out |-> NoOutcome, i |-> i]
  /\ UNCHANGED <<props, anchorEl, userInput, messages, isLoading, inflight,
                 handlerCalls>>

Next ==
  \/ handleOpenChat
  \/ handleCloseChat
  \/ \E value \in Inputs : handleInputChange(value)
  \/ ClickSend
  \/ handleKeyPress
  \/ \E i \in DOMAIN inflight, out \in Outcomes : Settle(i, out)
  \/ \E i \in DOMAIN messages, throws \in BOOLEAN : ClickMessage(i, throws)

Spec == Init /\ [][Next]_vars

TypeOK ==
  /\ props \in AiConfigHelperProps
  /\ anchorEl \in {"null", "button"}
  /\ isLoading \in BOOLEAN
  /\ Len(messages) <= MaxMessages
  /\ \A k \in DOMAIN messages : messages[k].isUser \in BOOLEAN

(***************************************************************************)
(* Steps, told from the states they join.                                  *)
(***************************************************************************)
\* a submit (Send click or Enter) was attempted in the step
SubmitStep == last'.op \in {"send", "enter"}

\* a handleSendMessage call got past its await in the step
SettleStep == Len(inflight') < Len(inflight)

\* the trigger button was clicked in the step
OpenStep == last'.op = "open"

\* a message bubble was clicked in the step
ClickStep == last'.op = "click"

(***************************************************************************)
(* C1: a submit attempted while a dispatch is pending appends no user      *)
(* message and does not invoke the handler again, so that at most one      *)
(* handler call is in flight at any time.                                  *)
(***************************************************************************)
C1_BusySubmitRejected ==
  /\ [][(SubmitStep /\ inflight # <<>>)
          => (messages' = messages /\ handlerCalls' = handlerCalls)]_vars
  /\ [](Len(inflight) <= 1)

(***************************************************************************)
(* C2: in every reachable state isLoading is true exactly when a submitted *)
(* dispatch has not yet settled.                                           *)
(***************************************************************************)
C2_BusyIffPending == isLoading <=> (inflight # <<>>)

(***************************************************************************)
(* C3, as claimed: when a dispatch settles, on either path, the input text *)
(* is cleared and isLoading is set to false at that moment.                *)
(***************************************************************************)
C3_SettleClearsInputAndBusy ==
  [][SettleStep => (userInput' = "" /\ isLoading' = FALSE)]_vars

(***************************************************************************)
(* C3, amended: when a dispatch settles, on either path, isLoading is set  *)
(* to false and the input text is left as it is; the input text is cleared *)
(* when a non-blank input is submitted.                                    *)
(***************************************************************************)
C3_SettleClearsBusyOnly ==
  [][/\ SettleStep => (isLoading' = FALSE /\ userInput' = userInput)
     /\ (SubmitStep /\ ~Blank(userInput)) => userInput' = ""]_vars

\* a dispatch has just failed while the user had typed new text, which is
\* still in the field
C3_Witness ==
  /\ last.op = "settle"
  /\ last.out.kind = "reject"
  /\ userInput = " a b "
  /\ ~isLoading

(***************************************************************************)
(* C4: a dispatch whose handler succeeds appends exactly three assistant   *)
(* messages, lead-in, payload rendering and apply-prompt in that order; a  *)
(* dispatch whose handler fails appends exactly one assistant message, the *)
(* error report, and none of the three.                                    *)
(***************************************************************************)
C4_ThreeOnSuccessOneOnFailure ==
  [][SettleStep =>
       LET n == Len(messages)
           new == SubSeq(messages', n + 1, Len(messages'))
       IN /\ IsPrefix(messages, messages')
          /\ \A k \in DOMAIN new : ~new[k].isUser
          /\ last'.out.kind = "resolve" =>
               /\ Len(new) = 3
               /\ new[1] = aiMessage
               /\ new[2] \notin {aiMessage, suggestionMessage}
               /\ new[3] = suggestionMessage
          /\ last'.out.kind = "reject" =>
               /\ Len(new) = 1
               /\ new[1] = errorMessage(last'.out.err)
               /\ new[1] \notin {aiMessage, suggestionMessage}]_vars

(***************************************************************************)
(* C5, as claimed: opening with no messages inserts exactly one assistant  *)
(* welcome message, with the configured text if one is configured and the  *)
(* default template otherwise; opening with messages inserts nothing; no   *)
(* other step inserts it, so it is inserted exactly once.                  *)
(***************************************************************************)
WelcomeStep(text) ==
  /\ (OpenStep /\ messages = <<>>) => messages' = <<AssistantMessage(text)>>
  /\ (OpenStep /\ messages # <<>>) => messages' = messages
  /\ (~OpenStep /\ messages = <<>>) => messages' = <<>>
  /\ messages # <<>> => (messages' # <<>> /\ messages'[1] = messages[1])

C5_WelcomeOnceConfiguredOrDefault ==
  [][WelcomeStep(IF props.welcomeMessage.some THEN props.welcomeMessage.v
                 ELSE defaultWelcomeMessage)]_vars

(***************************************************************************)
(* C5, amended: as claimed, except that the text is the configured welcome *)
(* message if a non-empty one is configured and the default template       *)
(* otherwise (also when the configured message is the empty string).       *)
(***************************************************************************)
C5_WelcomeOnceNonEmptyOrDefault ==
  [][WelcomeStep(IF props.welcomeMessage.some /\ props.welcomeMessage.v # ""
                 THEN props.welcomeMessage.v
                 ELSE defaultWelcomeMessage)]_vars

\* the panel was reopened on a conversation that has its one welcome
\* message, the configured one
C5_Witness ==
  /\ last.op = "open"
  /\ props.welcomeMessage = Some("Hello!")
  /\ Len(messages) > 1
  /\ messages[1] = AssistantMessage("Hello!")
  /\ \A k \in 2..Len(messages) : messages[k].text # "Hello!"

(***************************************************************************)
(* C6: submitting input that is empty or only white space changes neither  *)
(* the message sequence, nor isLoading, nor the input text, and does not   *)
(* invoke the handler.                                                     *)
(***************************************************************************)
C6_BlankSubmitNoOp ==
  [][(SubmitStep /\ Blank(userInput))
       => UNCHANGED <<messages, isLoading, userInput, handlerCalls,
                      inflight>>]_vars

\* Enter was pressed on white space, which is still in the field
C6_Witness ==
  /\ last.op = "enter"
  /\ userInput = "  "
  /\ handlerCalls = <<>>

(***************************************************************************)
(* C7: submitting non-blank input appends exactly one user message, with   *)
(* the trimmed input as text, and gives the handler that same text; the    *)
(* user message is in the sequence while the call is pending, and the      *)
(* responses of the call come after it.                                    *)
(***************************************************************************)
C7_UserMessageFirst ==
  /\ [][(SubmitStep /\ ~Blank(userInput)) =>
          /\ messages' = Append(messages, UserMessage(Trim(userInput)))
          /\ handlerCalls' = Append(handlerCalls, Trim(userInput))
          /\ Len(inflight') = Len(inflight) + 1]_vars
  /\ [](\A k \in DOMAIN inflight :
          /\ inflight[k].pos \in DOMAIN messages
          /\ messages[inflight[k].pos] = UserMessage(inflight[k].arg)
          /\ inflight[k].id \in DOMAIN handlerCalls
          /\ handlerCalls[inflight[k].id] = inflight[k].arg)
  /\ [][SettleStep =>
          /\ IsPrefix(messages, messages')
          /\ \A k \in (Len(messages) + 1)..Len(messages') :
               ~messages'[k].isUser]_vars

\* " a b " was submitted: its user message is the last one and the handler
\* has "a b", still pending
C7_Witness ==
  /\ last.op \in {"send", "enter"}
  /\ inflight # <<>>
  /\ messages[Len(messages)] = UserMessage("a b")
  /\ handlerCalls[Len(handlerCalls)] = "a b"
  /\ inflight[Len(inflight)].arg = "a b"

(***************************************************************************)
(* C8: with an apply callback, a click on an assistant message gives the   *)
(* callback the parsed value when the text is JSON and the text itself     *)
(* when it is not, and nothing is reported (no message is added); without  *)
(* a callback nothing is called.                                           *)
(***************************************************************************)
C8_ApplyParsedOrRaw ==
  [][(ClickStep /\ ~messages[last'.i].isUser) =>
       LET text == messages[last'.i].text
           r == JsonParse(text)
       IN /\ UNCHANGED <<messages, isLoading, userInput>>
          /\ ~props.onApplyValue => applyCalls' = <<>>
          /\ (props.onApplyValue /\ r.ok) =>
               (applyCalls' # <<>> /\ applyCalls'[1] = r.v)
          /\ (props.onApplyValue /\ ~r.ok) => applyCalls' = <<JStr(text)>>
          /\ (props.onApplyValue /\ text = "{\"x\":1}") =>
               applyCalls'[1] = JObj(<< <<"x", JNum(1)>> >>)
          /\ (props.onApplyValue /\ text = "hello world") =>
               applyCalls' = <<JStr("hello world")>>]_vars

\* the message {"x":1} was clicked and the callback got the object
C8_Witness ==
  /\ last.op = "click"
  /\ messages[last.i] = AssistantMessage("{\"x\":1}")
  /\ applyCalls = <<JObj(<< <<"x", JNum(1)>> >>)>>

(***************************************************************************)
(* C9: the apply callback is called only by a click on an assistant        *)
(* message; a click on a user message calls nothing.                       *)
(***************************************************************************)
C9_ApplyOnlyForAssistant ==
  /\ applyCalls # <<>> => (last.op = "click" /\ ~messages[last.i].isUser)
  /\ (last.op = "click" /\ messages[last.i].isUser) => applyCalls = <<>>

\* a user message was clicked, with a callback configured
C9_Witness ==
  /\ last.op = "click"
  /\ messages[last.i].isUser
  /\ props.onApplyValue
  /\ applyCalls = <<>>

(***************************************************************************)
(* C10: after any event the previous message sequence is a prefix of the   *)
(* new one.                                                                *)
(***************************************************************************)
C10_AppendOnly == [][IsPrefix(messages, messages')]_vars

\* the panel was reopened after a whole exchange, which is still there
C10_Witness ==
  /\ last.op = "open"
  /\ Len(messages) >= 5
  /\ messages[2].isUser
  /\ messages[5] = suggestionMessage

(***************************************************************************)
(* C11, as claimed: a rejection of the handler is caught: the call ends    *)
(* with one assistant message and isLoading false; the message reports the *)
(* description the rejection carries, and has the generic "Unknown error"  *)
(* only when the rejection carries none.                                   *)
(***************************************************************************)
RejectStep == SettleStep /\ last'.out.kind = "reject"

CaughtLocally ==
  /\ Len(messages') = Len(messages) + 1
  /\ IsPrefix(messages, messages')
  /\ ~messages'[Len(messages')].isUser
  /\ isLoading' = FALSE
  /\ UNCHANGED <<props, anchorEl, userInput, handlerCalls>>

C11_ErrorReportsDescription ==
  [][RejectStep =>
       LET desc == last'.out.err.message
           text == messages'[Len(messages')].text
       IN /\ CaughtLocally
          /\ desc # "" => text = "Sorry, I encountered an error: " \o desc
          /\ text = "Sorry, I encountered an error: Unknown error"
               => desc = ""]_vars

(***************************************************************************)
(* C11, amended: a rejection of the handler is caught as claimed; the      *)
(* message reports the message of the rejection when the rejection is an   *)
(* Error (also an empty message), and has the generic "Unknown error" for  *)
(* every other rejection value, also one that carries a description.       *)
(***************************************************************************)
C11_ErrorReportsMessageOfError ==
  [][RejectStep =>
       LET e == last'.out.err
           text == messages'[Len(messages')].text
       IN /\ CaughtLocally
          /\ e.isError => text = "Sorry, I encountered an error: " \o e.message
          /\ ~e.isError =>
               text = "Sorry, I encountered an error: Unknown error"]_vars

\* the handler rejected with the string "boom" and the message says
\* "Unknown error"
C11_Witness ==
  /\ last.op = "settle"
  /\ last.out = Reject(NonError("boom"))
  /\ messages[Len(messages)] =
       AssistantMessage("Sorry, I encountered an error: Unknown error")
  /\ ~isLoading

(***************************************************************************)
(* C12: closing the panel does not abort a pending dispatch: the call      *)
(* stays pending; when it settles, with the panel open or closed, its      *)
(* response messages (or its error message) are appended and isLoading is  *)
(* set to false, and the panel stays as it is.                             *)
(***************************************************************************)
CloseStep == last'.op = "close"

C12_NoCancellation ==
  /\ [][CloseStep => UNCHANGED <<inflight, handlerCalls, isLoading>>]_vars
  /\ [][SettleStep =>
          /\ messages' = messages \o ResponseMessages(last'.out)
          /\ Len(messages') > Len(messages)
          /\ isLoading' = FALSE
          /\ anchorEl' = anchorEl]_vars

\* a call that was pending when the panel was closed has settled with the
\* panel closed: its three messages are there and isLoading is false
C12_Witness ==
  /\ last.op = "settle"
  /\ last.out.kind = "resolve"
  /\ anchorEl = "null"
  /\ ~isLoading
  /\ Len(messages) >= 5
  /\ messages[Len(messages)] = suggestionMessage

(***************************************************************************)
(* C13, as claimed: open and close only change whether the panel is open:  *)
(* both leave the message sequence, the input text, isLoading and the      *)
(* pending calls as they are, so that a reopened panel has the history     *)
(* from before the close.                                                  *)
(***************************************************************************)
C13_OpenCloseOnlyToggle ==
  [][/\ OpenStep => anchorEl' = "button"
     /\ CloseStep => anchorEl' = "null"
     /\ (OpenStep \/ CloseStep) =>
          UNCHANGED <<messages, userInput, isLoading, inflight,
                      handlerCalls>>]_vars

(***************************************************************************)
(* C13, amended: as claimed, except that an open on an empty message       *)
(* sequence also inserts one assistant message, the welcome message; an    *)
(* open on a non-empty sequence and every close leave the messages as they *)
(* are.                                                                    *)
(***************************************************************************)
C13_OpenCloseToggleAndSeed ==
  [][/\ OpenStep => anchorEl' = "button"
     /\ CloseStep => anchorEl' = "null"
     /\ (OpenStep \/ CloseStep) =>
          UNCHANGED <<userInput, isLoading, inflight, handlerCalls>>
     /\ (CloseStep \/ (OpenStep /\ messages # <<>>)) => messages' = messages
     /\ (OpenStep /\ messages = <<>>) =>
          (Len(messages') = 1 /\ ~messages'[1].isUser)]_vars

\* the panel was reopened: the exchange, the text typed before the close
\* and the pending call are all there
C13_Witness ==
  /\ last.op = "open"
  /\ anchorEl = "button"
  /\ Len(messages) >= 2
  /\ messages[2].isUser
  /\ userInput = " a b "
  /\ isLoading
  /\ inflight # <<>>

(***************************************************************************)
(* C14: with a callback configured, a click on an assistant message calls  *)
(* the callback exactly once, also when the callback throws on the parsed  *)
(* value.                                                                  *)
(***************************************************************************)
C14_ApplyExactlyOnce ==
  [][(ClickStep /\ ~messages[last'.i].isUser /\ props.onApplyValue)
       => Len(applyCalls') = 1]_vars

(***************************************************************************)
(* C15, as claimed: for every payload that is a string or a structure, a   *)
(* click on the payload message of a dispatch (the message between the     *)
(* lead-in and the apply-prompt) gives the callback a value equal to the   *)
(* payload.                                                                *)
(***************************************************************************)
\* the payloads of the handler contract that the handler or the mock gives
ContractPayloads ==
  {p \in Payloads \cup {MockResponses[k] : k \in 1..3} : p.t # "undef"}

IsPayloadMessage(i) ==
  /\ i - 1 \in DOMAIN messages
  /\ i + 1 \in DOMAIN messages
  /\ messages[i - 1] = aiMessage
  /\ messages[i + 1] = suggestionMessage
  /\ ~messages[i].isUser

\* the payload message of a dispatch was clicked, with a callback
PayloadClickStep ==
  /\ ClickStep
  /\ props.onApplyValue
  /\ IsPayloadMessage(last'.i)

\* the clicked message is the rendering of p
Clicked(p) ==
  /\ PayloadText(p).ok
  /\ PayloadText(p).text = messages[last'.i].text

C15_PayloadRoundTrip ==
  [][PayloadClickStep =>
       \A p \in ContractPayloads :
         Clicked(p) => (applyCalls' # <<>> /\ applyCalls'[1] = p)]_vars

(***************************************************************************)
(* C15, amended: the callback is given a value equal to the payload for    *)
(* every structured payload and for every string payload that is not       *)
(* itself JSON text; a string payload that is JSON text, such as the       *)
(* string {"x":1}, reaches the callback as the value it parses to.         *)
(***************************************************************************)
C15_RoundTripUnlessJsonString ==
  [][PayloadClickStep =>
       \A p \in ContractPayloads :
         Clicked(p) =>
           /\ applyCalls' # <<>>
           /\ p.t # "str" => applyCalls'[1] = p
           /\ (p.t = "str" /\ ~JsonParse(p.v).ok) => applyCalls'[1] = p
           /\ (p.t = "str" /\ JsonParse(p.v).ok) =>
                applyCalls'[1] = JsonParse(p.v).v
           /\ p = JStr("hello world") => applyCalls' = <<JStr("hello world")>>
           /\ p = JStr("{\"x\":1}") =>
                applyCalls'[1] = JObj(<< <<"x", JNum(1)>> >>)]_vars

\* the rendering of the object payload {x: 1} was clicked and the callback
\* got that object
C15_Witness ==
  /\ last.op = "click"
  /\ IsPayloadMessage(last.i)
  /\ messages[last.i].text = "{\n  \"x\": 1\n}"
  /\ applyCalls = <<JObj(<< <<"x", JNum(1)>> >>)>>

(***************************************************************************)
(* C16: in every reachable state with a non-empty message sequence, the    *)
(* first message is the assistant's welcome message (the configured text,  *)
(* or the default template), so that no user message and no response       *)
(* comes before it.                                                        *)
(***************************************************************************)
C16_WelcomeIsFirst ==
  messages # <<>> =>
    /\ ~messages[1].isUser
    /\ messages[1].text =
         (IF props.welcomeMessage.some /\ props.welcomeMessage.v # ""
          THEN props.welcomeMessage.v
          ELSE defaultWelcomeMessage)
    /\ messages[1] \notin {aiMessage, suggestionMessage}

\* a first text was submitted: its user message is second, after the
\* default welcome message
C16_Witness ==
  /\ last.op \in {"send", "enter"}
  /\ Len(messages) = 2
  /\ messages[1] = AssistantMessage(defaultWelcomeMessage)
  /\ messages[2] = UserMessage("a b")

(***************************************************************************)
(* C17: every dispatch that settles appends exactly three assistant        *)
(* messages or exactly one, never another number, whatever the handler     *)
(* settles with, a response without payload included.                      *)
(***************************************************************************)
C17_ThreeOrOneNeverTwo ==
  [][SettleStep =>
       /\ Len(messages') - Len(messages) \in {1, 3}
       /\ \A k \in (Len(messages) + 1)..Len(messages') :
            ~messages'[k].isUser]_vars

====
